---- MODULE Spec2Model ----
(***************************************************************************)
(* A model of src/dcf_analysis_main.py: process_input_data, the nested     *)
(* helper get_financial_value and the valuation loop of dcf_analysis.      *)
(*                                                                         *)
(* Numbers.  Python floats are modelled as exact rationals [n, d] in       *)
(* lowest terms with d > 0; the float NaN is the record with d = 0.        *)
(* Rounding is not modelled: every equality below is an equality of exact  *)
(* values.  A division by zero is never evaluated by the operators: the    *)
(* actions test the divisor first and record Python's ZeroDivisionError.   *)
(*                                                                         *)
(* Data frames.  A pandas DataFrame is [index, fy, col]: the sequence of   *)
(* its index labels in row order, the fiscal year of each index label and, *)
(* for each numeric column present, the value at each index label.  A      *)
(* pandas Series is [index, val].  Arithmetic between two Series aligns    *)
(* them on their index labels, as pandas does.                             *)
(***************************************************************************)
EXTENDS Integers, Sequences, FiniteSets, TLC

--------------------------------------------------------------------------
(* Bounds of the model *)

MaxRows == 2

MaxHorizon == 2

--------------------------------------------------------------------------
(* Exact arithmetic standing for Python's float operators *)

Abs(a) == IF a < 0 THEN -a ELSE a

RECURSIVE GCD(_, _)
GCD(a, b) == IF b = 0 THEN a ELSE GCD(b, a % b)

NaN == [n |-> 0, d |-> 0]

IsNaN(x) == x.d = 0

Rat(n, d) ==
    LET s == IF d < 0 THEN -1 ELSE 1
        g == GCD(Abs(n), Abs(d))
    IN  [n |-> (s * n) \div g, d |-> (s * d) \div g]

Num(k) == [n |-> k, d |-> 1]

Zero == Num(0)

One == Num(1)

IsZero(x) == x.d # 0 /\ x.n = 0

Add(x, y) ==
    IF IsNaN(x) \/ IsNaN(y) THEN NaN
    ELSE LET g == GCD(x.d, y.d)
         IN  Rat(x.n * (y.d \div g) + y.n * (x.d \div g), x.d * (y.d \div g))

Neg(x) == [n |-> -x.n, d |-> x.d]

Sub(x, y) == Add(x, Neg(y))

Mul(x, y) ==
    IF IsNaN(x) \/ IsNaN(y) THEN NaN
    ELSE LET g1 == GCD(Abs(x.n), y.d)
             g2 == GCD(Abs(y.n), x.d)
         IN  Rat((x.n \div g1) * (y.n \div g2), (x.d \div g2) * (y.d \div g1))

\* x / y for a divisor that is not zero (a zero divisor raises in Python)
Div(x, y) ==
    IF IsNaN(x) \/ IsNaN(y) THEN NaN
    ELSE Mul(x, Rat(y.d, y.n))

RECURSIVE Pow(_, _)
Pow(x, j) == IF j = 0 THEN One ELSE Mul(x, Pow(x, j - 1))

AbsVal(x) == [n |-> Abs(x.n), d |-> x.d]

Less(x, y) == x.n * y.d < y.n * x.d

\* Python's sum() over a list
RECURSIVE SumList(_)
SumList(s) == IF Len(s) = 0 THEN Zero ELSE Add(SumList(SubSeq(s, 1, Len(s) - 1)), s[Len(s)])

Range(s) == {s[p] : p \in 1..Len(s)}

\* pandas Series.sum(): null values are skipped
RECURSIVE SumSkipNa(_, _)
SumSkipNa(val, keys) ==
    IF keys = {} THEN Zero
    ELSE LET k == CHOOSE x \in keys : TRUE
             v == IF IsNaN(val[k]) THEN Zero ELSE val[k]
         IN  Add(v, SumSkipNa(val, keys \ {k}))

SeriesSum(s) == SumSkipNa(s.val, Range(s.index))

--------------------------------------------------------------------------
(* The input workbook and process_input_data *)

CfoLabel == "NetCashProvidedByUsedInOperatingActivities"

CapexLabel == "PaymentsToAcquirePropertyPlantAndEquipment"

KeyColumns == {"fy", "form", "name"}

BalanceSheetColumns == {"Assets", "Liabilities", "Equity"}

IncomeStatementColumns ==
    {"Revenues", "OperatingIncomeLoss",
     "IncomeLossFromContinuingOperationsBeforeIncomeTaxExpenseBenefit",
     "AllIncomeTaxExpenseBenefit"}

CashFlowColumns == {CfoLabel, CapexLabel, "DepreciationDepletionAndAmortization"}

\* every column the three selections of process_input_data name
RequiredColumns ==
    KeyColumns \cup BalanceSheetColumns \cup IncomeStatementColumns \cup CashFlowColumns

AppleName == "APPLE INC"

OtherName == "AAA CORP"

\* a null cell of the name column
NullName == "null"

\* the sort order groupby gives the entity names of the model
NameRank == (OtherName :> 1) @@ (AppleName :> 2)

FiscalYears == {2020, 2021}

\* the (cfo, capex) cells of one row of the workbook
CellPairs == {<<Num(100), NaN>>, <<Num(-20), Num(10)>>}

RawRows ==
    {[fy |-> y, name |-> nm, cfo |-> c[1], capex |-> c[2]] :
        y \in FiscalYears, nm \in {OtherName, AppleName, NullName}, c \in CellPairs}

\* dropna(subset=['name']) followed by the group keys (fy, form, name);
\* every row of the model is a 10-K, so form is left out of the key
GroupKeys(rows) ==
    {<<rows[p].fy, rows[p].name>> : p \in {q \in 1..Len(rows) : rows[q].name # NullName}}

KeyLeq(x, y) == x[1] < y[1] \/ (x[1] = y[1] /\ NameRank[x[2]] <= NameRank[y[2]])

\* groupby sorts the groups by their keys
RECURSIVE SortKeys(_)
SortKeys(S) ==
    IF S = {} THEN << >>
    ELSE LET m == CHOOSE x \in S : \A y \in S : KeyLeq(x, y)
         IN  <<m>> \o SortKeys(S \ {m})

\* groupby(...).sum() of one column over the rows of one group: nulls are skipped
RECURSIVE GroupSum(_, _, _)
GroupSum(rows, key, field) ==
    IF Len(rows) = 0 THEN Zero
    ELSE LET row == rows[Len(rows)]
             rest == GroupSum(SubSeq(rows, 1, Len(rows) - 1), key, field)
             v == IF field = CfoLabel THEN row.cfo ELSE row.capex
         IN  IF <<row.fy, row.name>> = key /\ ~IsNaN(v) THEN Add(rest, v) ELSE rest

\* the two inner merges: one row per group key, on a fresh index 0..m-1
MergedDf(rows) ==
    LET keys == SortKeys(GroupKeys(rows))
        m == Len(keys)
    IN  [index |-> [p \in 1..m |-> p - 1],
         fy |-> [i \in 0..(m - 1) |-> keys[i + 1][1]],
         name |-> [i \in 0..(m - 1) |-> keys[i + 1][2]],
         col |-> [label \in {CfoLabel, CapexLabel} |->
                    [i \in 0..(m - 1) |-> GroupSum(rows, keys[i + 1], label)]]]

\* drop_duplicates(subset=['fy', 'form']): the first row of each fiscal year stays
RECURSIVE DropDuplicates(_, _)
DropDuplicates(index, fy) ==
    IF Len(index) = 0 THEN << >>
    ELSE LET front == DropDuplicates(SubSeq(index, 1, Len(index) - 1), fy)
             last == index[Len(index)]
         IN  IF \E p \in 1..Len(front) : fy[front[p]] = fy[last]
             THEN front ELSE Append(front, last)

\* the boolean filter keeps the index labels of merged_df
AppleDf(merged) ==
    LET kept == SelectSeq(merged.index, LAMBDA i : merged.name[i] = AppleName)
        index == DropDuplicates(kept, merged.fy)
    IN  [index |-> index,
         fy |-> [i \in Range(index) |-> merged.fy[i]],
         col |-> [label \in DOMAIN merged.col |->
                    [i \in Range(index) |-> merged.col[label][i]]]]

ProcessInputDataResult(file) == AppleDf(MergedDf(file.rows))

EmptyDf == [index |-> << >>, fy |-> << >>, col |-> << >>]

--------------------------------------------------------------------------
(* get_financial_value *)

LabelVariations == [cfo |-> <<CfoLabel>>, capex |-> <<CapexLabel>>]

\* pd.Series([0] * len(df)): a fresh index 0..len-1
DefaultSeries(df) ==
    [index |-> [p \in 1..Len(df.index) |-> p - 1],
     val |-> [i \in 0..(Len(df.index) - 1) |-> Zero]]

\* df[label].abs().sum()
AbsSum(df, label) ==
    SumSkipNa([i \in Range(df.index) |-> AbsVal(df.col[label][i])], Range(df.index))

\* df[label].fillna(0)
FillNa(df, label) ==
    [index |-> df.index,
     val |-> [i \in Range(df.index) |->
                IF IsNaN(df.col[label][i]) THEN Zero ELSE df.col[label][i]]]

\* the for loop over possible_labels, from candidate k on
RECURSIVE LabelLoop(_, _, _, _, _)
LabelLoop(df, possible_labels, k, max_abs_value, found_label) ==
    IF k > Len(possible_labels)
    THEN [series |-> max_abs_value, found_label |-> found_label]
    ELSE LET label == possible_labels[k]
         IN  IF label \in DOMAIN df.col
                /\ Less(SeriesSum(max_abs_value), AbsSum(df, label))
             THEN LabelLoop(df, possible_labels, k + 1, FillNa(df, label), label)
             ELSE LabelLoop(df, possible_labels, k + 1, max_abs_value, found_label)

get_financial_value(df, possible_labels) ==
    LabelLoop(df, possible_labels, 1, DefaultSeries(df), "None")

\* cfo - capex aligned on the index labels, then aligned to the frame on assignment
FcffColumn(df, cfo, capex) ==
    [i \in Range(df.index) |->
        IF i \in Range(cfo.index) /\ i \in Range(capex.index)
        THEN Sub(cfo.val[i], capex.val[i])
        ELSE NaN]

ColumnToList(df, column) == [p \in 1..Len(df.index) |-> column[df.index[p]]]

--------------------------------------------------------------------------
(* One iteration of the valuation loop of dcf_analysis *)

Million == 1000000

\* a projection that starts at the base year: range(0, projection_years)
ProjectedFcffsFromBaseYear(current_fcff, g, N) ==
    [j \in 1..N |-> Mul(current_fcff, Pow(Add(One, g), j - 1))]

\* [current_fcff * (1 + g) ** j for j in range(1, projection_years + 1)]
ProjectedFcffs(current_fcff, g, N) ==
    [j \in 1..N |-> Mul(current_fcff, Pow(Add(One, g), j))]

\* [(1 + r) ** j for j in range(1, projection_years + 1)]
DiscountFactors(r, N) == [j \in 1..N |-> Pow(Add(One, r), j)]

\* [fcff / discount_factors[j] for j, fcff in enumerate(projected_fcffs)]
DiscountedFcffs(projected, factors) ==
    [j \in 1..Len(projected) |-> Div(projected[j], factors[j])]

\* a terminal value without the year of growth past the horizon
TerminalValueNoGrowth(projected, r, g) == Div(projected[Len(projected)], Sub(r, g))

\* projected_fcffs[-1] * (1 + g) / (r - g)
TerminalValue(projected, r, g) ==
    Div(Mul(projected[Len(projected)], Add(One, g)), Sub(r, g))

Failure(kind, line, projected, discounted) ==
    [error |-> [kind |-> kind, line |-> line], projected |-> projected,
     discounted |-> discounted, terminal_value_pv |-> NaN, net_present_value |-> NaN]

NoError == [kind |-> "none", line |-> 0]

\* an iteration that, for an empty projection, values the record by a terminal
\* value on the historical FCFF itself
DcfIterationDegenerate(current_fcff, r, g, N) ==
    LET projected == ProjectedFcffs(current_fcff, g, N)
        factors == DiscountFactors(r, N)
    IN  IF \E j \in 1..Len(projected) : IsZero(factors[j])
        THEN Failure("ZeroDivisionError", 100, projected, << >>)
        ELSE LET discounted == DiscountedFcffs(projected, factors)
                 last == IF Len(projected) = 0 THEN current_fcff
                         ELSE projected[Len(projected)]
                 factor == IF Len(factors) = 0 THEN One ELSE factors[Len(factors)]
             IN  IF IsZero(Sub(r, g))
                 THEN Failure("ZeroDivisionError", 104, projected, discounted)
                 ELSE LET terminal_value == Div(Mul(last, Add(One, g)), Sub(r, g))
                          terminal_value_pv == Div(terminal_value, factor)
                      IN  [error |-> NoError, projected |-> projected,
                           discounted |-> discounted,
                           terminal_value_pv |-> terminal_value_pv,
                           net_present_value |->
                               Add(SumList(discounted), terminal_value_pv)]

\* the body of the for loop, lines 91 to 110, with the exception Python raises
DcfIteration(current_fcff, r, g, N) ==
    LET projected == ProjectedFcffs(current_fcff, g, N)
        factors == DiscountFactors(r, N)
    IN  IF \E j \in 1..Len(projected) : IsZero(factors[j])
        THEN Failure("ZeroDivisionError", 100, projected, << >>)
        ELSE LET discounted == DiscountedFcffs(projected, factors)
             IN  IF Len(projected) = 0
                 THEN Failure("IndexError", 104, projected, discounted)
                 ELSE IF IsZero(Sub(r, g))
                 THEN Failure("ZeroDivisionError", 104, projected, discounted)
                 ELSE LET terminal_value == TerminalValue(projected, r, g)
                          terminal_value_pv == Div(terminal_value, factors[Len(factors)])
                      IN  [error |-> NoError, projected |-> projected,
                           discounted |-> discounted,
                           terminal_value_pv |-> terminal_value_pv,
                           net_present_value |->
                               Add(SumList(discounted), terminal_value_pv)]

OutputColumns ==
    <<"Year", "Free Cash Flow to Firm (in millions)", "Terminal Value (in millions)",
      "Net Present Value (in millions)">>

\* a table built from per-row records: without rows it has no columns
OutputDfFromRecords(years, fcffs, tvs, npvs) ==
    [written |-> TRUE,
     columns |-> IF Len(years) = 0 THEN << >> ELSE OutputColumns,
     rows |-> [p \in 1..Len(years) |->
                 <<years[p], Div(fcffs[p], Num(Million)), Div(tvs[p], Num(Million)),
                   Div(npvs[p], Num(Million))>>]]

\* a table whose Year column alone is listed newest first
OutputDfYearsNewestFirst(years, fcffs, tvs, npvs) ==
    [written |-> TRUE,
     columns |-> OutputColumns,
     rows |-> [p \in 1..Len(years) |->
                 <<years[Len(years) + 1 - p], Div(fcffs[p], Num(Million)),
                   Div(tvs[p], Num(Million)), Div(npvs[p], Num(Million))>>]]

\* pd.DataFrame({...}) of the four parallel lists
OutputDf(years, fcffs, tvs, npvs) ==
    [written |-> TRUE,
     columns |-> OutputColumns,
     rows |-> [p \in 1..Len(years) |->
                 <<years[p], Div(fcffs[p], Num(Million)), Div(tvs[p], Num(Million)),
                   Div(npvs[p], Num(Million))>>]]

NoFile == [written |-> FALSE, columns |-> << >>, rows |-> << >>]

EmptySeries == [index |-> << >>, val |-> << >>]

--------------------------------------------------------------------------
(* The state of one run *)

VARIABLES
    input_file,            \* the workbook: its columns and its rows
    discount_rate,
    terminal_growth_rate,
    projection_years,
    pc,                    \* where the run is
    apple_df,
    cfo,
    capex,
    used_labels,           \* the found_label values printed, in order
    historical_years,
    historical_fcffs,
    i,                     \* loop iterations completed
    projected_fcffs,       \* the locals of the latest iteration
    discounted_fcffs,
    terminal_values,
    net_present_values,
    output_file,           \* the workbook written, if any
    error,                 \* the exception that ended the run, if any
    possible_labels,       \* the arguments and the result of a direct call
    resolved               \*   of get_financial_value

vars ==
    <<input_file, discount_rate, terminal_growth_rate, projection_years, pc, apple_df,
      cfo, capex, used_labels, historical_years, historical_fcffs, i, projected_fcffs,
      discounted_fcffs, terminal_values, net_present_values, output_file, error,
      possible_labels, resolved>>

DiscountRates == {Num(-2), Num(-1), Zero, Rat(1, 2)}

GrowthRates == {Rat(-1, 2), Zero, Rat(1, 2)}

\* the rates of the __main__ block, with a horizon of one year
ExampleConfiguration == [r |-> Rat(1, 10), g |-> Rat(1, 50), N |-> 1]

Configurations ==
    {[r |-> r, g |-> g, N |-> N] :
        r \in DiscountRates, g \in GrowthRates, N \in (-1)..MaxHorizon}
    \cup {ExampleConfiguration}

\* a workbook has every required column, or lacks the capex column
ColumnSets == {RequiredColumns, RequiredColumns \ {CapexLabel}}

\* the rows a workbook with these columns can hold: no capex cell without the column
RowsFor(columns) ==
    IF CapexLabel \in columns THEN RawRows ELSE {row \in RawRows : IsNaN(row.capex)}

NoResult == [series |-> EmptySeries, found_label |-> "None"]

RunLocals ==
    /\ cfo = EmptySeries
    /\ capex = EmptySeries
    /\ used_labels = << >>
    /\ historical_years = << >>
    /\ historical_fcffs = << >>
    /\ i = 0
    /\ projected_fcffs = << >>
    /\ discounted_fcffs = << >>
    /\ terminal_values = << >>
    /\ net_present_values = << >>
    /\ output_file = NoFile
    /\ error = NoError
    /\ resolved = NoResult

Init ==
    /\ \E k \in 0..MaxRows, columns \in ColumnSets :
        \E rows \in [1..k -> RowsFor(columns)] :
            input_file = [columns |-> columns, rows |-> rows]
    /\ \E c \in Configurations :
        /\ discount_rate = c.r
        /\ terminal_growth_rate = c.g
        /\ projection_years = c.N
    /\ pc = "process_input_data"
    /\ apple_df = EmptyDf
    /\ possible_labels = << >>
    /\ RunLocals

\* lines 3 to 35; a selection naming an absent column raises KeyError
ProcessInputData ==
    /\ pc = "process_input_data"
    /\ IF RequiredColumns \subseteq input_file.columns
       THEN /\ apple_df' = ProcessInputDataResult(input_file)
            /\ pc' = "get_financial_value"
            /\ error' = error
       ELSE /\ apple_df' = apple_df
            /\ pc' = "failed"
            /\ error' = [kind |-> "KeyError", line |-> 10]
    /\ UNCHANGED <<input_file, discount_rate, terminal_growth_rate, projection_years,
                   cfo, capex, used_labels, historical_years, historical_fcffs, i,
                   projected_fcffs, discounted_fcffs, terminal_values,
                   net_present_values, output_file, possible_labels, resolved>>

\* lines 65 to 87
ExtractValues ==
    /\ pc = "get_financial_value"
    /\ LET c == get_financial_value(apple_df, LabelVariations.cfo)
           x == get_financial_value(apple_df, LabelVariations.capex)
           fcff == FcffColumn(apple_df, c.series, x.series)
       IN  /\ cfo' = c.series
           /\ capex' = x.series
           /\ used_labels' = <<c.found_label, x.found_label>>
           /\ apple_df' = [apple_df EXCEPT !.col = ("FCFF" :> fcff) @@ @]
           /\ historical_years' = ColumnToList(apple_df, apple_df.fy)
           /\ historical_fcffs' = ColumnToList(apple_df, fcff)
    /\ terminal_values' = << >>
    /\ net_present_values' = << >>
    /\ i' = 0
    /\ pc' = "loop"
    /\ UNCHANGED <<input_file, discount_rate, terminal_growth_rate, projection_years,
                   projected_fcffs, discounted_fcffs, output_file, error,
                   possible_labels, resolved>>

\* lines 90 to 114: one iteration, or the exception that ends the run
Iterate ==
    /\ pc = "loop"
    /\ i < Len(historical_fcffs)
    /\ LET res == DcfIteration(historical_fcffs[i + 1], discount_rate,
                               terminal_growth_rate, projection_years)
       IN  /\ projected_fcffs' = res.projected
           /\ discounted_fcffs' = res.discounted
           /\ IF res.error = NoError
              THEN /\ terminal_values' = Append(terminal_values, res.terminal_value_pv)
                   /\ net_present_values' =
                          Append(net_present_values, res.net_present_value)
                   /\ i' = i + 1
                   /\ pc' = pc
                   /\ error' = error
              ELSE /\ error' = res.error
                   /\ pc' = "failed"
                   /\ UNCHANGED <<terminal_values, net_present_values, i>>
    /\ UNCHANGED <<input_file, discount_rate, terminal_growth_rate, projection_years,
                   apple_df, cfo, capex, used_labels, historical_years,
                   historical_fcffs, output_file, possible_labels, resolved>>

\* lines 117 to 128
WriteOutput ==
    /\ pc = "loop"
    /\ i = Len(historical_fcffs)
    /\ output_file' = OutputDf(historical_years, historical_fcffs, terminal_values,
                               net_present_values)
    /\ pc' = "done"
    /\ UNCHANGED <<input_file, discount_rate, terminal_growth_rate, projection_years,
                   apple_df, cfo, capex, used_labels, historical_years,
                   historical_fcffs, i, projected_fcffs, discounted_fcffs,
                   terminal_values, net_present_values, error, possible_labels,
                   resolved>>

Next == ProcessInputData \/ ExtractValues \/ Iterate \/ WriteOutput

Spec == Init /\ [][Next]_vars

--------------------------------------------------------------------------
(* get_financial_value called on its own, with any list of candidate labels *)

AltCfoLabel == "NetCashProvidedByUsedInOperatingActivitiesContinuingOperations"

ResolverLabels == {CfoLabel, AltCfoLabel}

ResolverValues == {NaN, Num(-10), Num(5), Num(10)}

\* the frames of n periods whose index labels start at shift: a fresh index
\* (shift 0) or one kept from a boolean filter (shift 1)
FramesOn(n, shift) ==
    LET keys == shift..(n - 1 + shift)
    IN  {[index |-> [p \in 1..n |-> p - 1 + shift],
          fy |-> [k \in keys |-> 2020 + k],
          col |-> col] :
            col \in UNION {[labels -> [keys -> ResolverValues]] :
                            labels \in SUBSET ResolverLabels}}

\* the numbers of periods of the frames
PeriodCounts == {1, 2}

ResolverFrames == UNION {FramesOn(n, shift) : n \in PeriodCounts, shift \in {0, 1}}

\* the ordered lists of distinct candidate labels
CandidateLists ==
    {l \in UNION {[1..k -> ResolverLabels] : k \in 0..Cardinality(ResolverLabels)} :
        \A p, q \in 1..Len(l) : p # q => l[p] # l[q]}

InitResolver ==
    /\ input_file = [columns |-> {}, rows |-> << >>]
    /\ discount_rate = Zero
    /\ terminal_growth_rate = Zero
    /\ projection_years = 0
    /\ pc = "call"
    /\ apple_df \in ResolverFrames
    /\ possible_labels \in CandidateLists
    /\ RunLocals

\* lines 49 to 62, called with the frame apple_df and the list possible_labels
ResolveCall ==
    /\ pc = "call"
    /\ resolved' = get_financial_value(apple_df, possible_labels)
    /\ used_labels' = <<get_financial_value(apple_df, possible_labels).found_label>>
    /\ pc' = "returned"
    /\ UNCHANGED <<input_file, discount_rate, terminal_growth_rate, projection_years,
                   apple_df, cfo, capex, historical_years, historical_fcffs, i,
                   projected_fcffs, discounted_fcffs, terminal_values,
                   net_present_values, output_file, error, possible_labels>>

NextResolver == ResolveCall

SpecResolver == InitResolver /\ [][NextResolver]_vars

--------------------------------------------------------------------------
(* Claims *)

ValidRates == Less(Num(-1), discount_rate) /\ discount_rate # terminal_growth_rate

\* the run has passed lines 65 to 83: both concepts are resolved
Extracted == Len(used_labels) = 2

\* C1: a run with discount_rate equal to terminal_growth_rate never completes,
\* writes no result table and reports no per-year result, whatever the data set
\* (an empty one included).
C1_EqualRatesAbort ==
    discount_rate = terminal_growth_rate =>
        /\ pc # "done"
        /\ ~output_file.written
        /\ terminal_values = << >>
        /\ net_present_values = << >>

\* C2: a run with discount_rate <= -1 is rejected: it never completes, and no
\* terminal value, NPV or output table is produced for any historical year.
C2_RateAtMostMinusOneRejected ==
    ~Less(Num(-1), discount_rate) =>
        /\ pc # "done"
        /\ ~output_file.written
        /\ terminal_values = << >>
        /\ net_present_values = << >>

PresentCandidates ==
    {possible_labels[p] : p \in {q \in 1..Len(possible_labels) :
                                    possible_labels[q] \in DOMAIN apple_df.col}}

IsGreatest(label) ==
    \A other \in PresentCandidates : ~Less(AbsSum(apple_df, label), AbsSum(apple_df, other))

\* the first listed candidate among those of greatest sum of absolute values
FirstGreatest ==
    possible_labels[CHOOSE p \in 1..Len(possible_labels) :
        /\ possible_labels[p] \in PresentCandidates
        /\ IsGreatest(possible_labels[p])
        /\ \A q \in 1..(p - 1) :
            possible_labels[q] \in PresentCandidates => ~IsGreatest(possible_labels[q])]

\* C3: when some present candidate has a non-zero sum of absolute values, the
\* resolver returns the values, nulls as 0, of the present candidate whose sum of
\* absolute values is greatest, the first listed one among equals.
C3_GreatestAbsSumFirstWins ==
    (pc = "returned" /\ \E l \in PresentCandidates : Less(Zero, AbsSum(apple_df, l))) =>
        /\ resolved.found_label = FirstGreatest
        /\ resolved.series = FillNa(apple_df, FirstGreatest)

\* C4: a workbook without the capex column does not abort the run: capex resolves
\* to 0 for every period, FCFF equals the resolved cfo of the period, and the
\* missing label is reported.
C4_MissingCapexDegrades ==
    CapexLabel \notin input_file.columns =>
        /\ pc # "failed"
        /\ Extracted =>
            /\ used_labels[2] = "None"
            /\ \A k \in Range(apple_df.index) :
                /\ k \in Range(capex.index) /\ capex.val[k] = Zero
                /\ k \in Range(cfo.index) /\ apple_df.col["FCFF"][k] = cfo.val[k]

FourColumns ==
    <<"Year", "Free Cash Flow to Firm (in millions)", "Terminal Value (in millions)",
      "Net Present Value (in millions)">>

\* C5: with no historical FCFF record the run raises nothing, the one step left
\* to it is writing the table, and the table written has no row and the four
\* columns.
C5_EmptySeriesEmptyTable ==
    (Extracted /\ historical_fcffs = << >>) =>
        /\ pc # "failed"
        /\ error = NoError
        /\ pc = "loop" => i = Len(historical_fcffs)
        /\ pc = "done" =>
            /\ output_file.written
            /\ output_file.rows = << >>
            /\ output_file.columns = FourColumns

C5_Witness ==
    /\ Extracted
    /\ historical_fcffs = << >>
    /\ pc = "done"
    /\ output_file.written

\* C6: for valid rates and a horizon N >= 1 the projected series of an iteration
\* has N elements, element j being fcff * (1+g)^j (j counted from 1), and the
\* discounted series has N elements, element j being fcff * ((1+g)/(1+r))^j.
C6_ProjectedAndDiscounted ==
    (ValidRates /\ projection_years >= 1 /\ pc \in {"loop", "done", "failed"} /\ i >= 1) =>
        LET fcff == historical_fcffs[i]
            g == terminal_growth_rate
            r == discount_rate
        IN  /\ Len(projected_fcffs) = projection_years
            /\ Len(discounted_fcffs) = projection_years
            /\ \A j \in 1..projection_years :
                /\ projected_fcffs[j] = Mul(fcff, Pow(Add(One, g), j))
                /\ discounted_fcffs[j] =
                       Mul(fcff, Pow(Div(Add(One, g), Add(One, r)), j))

C6_Witness ==
    /\ ValidRates
    /\ projection_years >= 2
    /\ i >= 1
    /\ ~IsNaN(historical_fcffs[i])
    /\ ~IsZero(historical_fcffs[i])
    /\ ~IsZero(terminal_growth_rate)
    /\ Len(projected_fcffs) = projection_years

\* C7: for valid rates and N >= 1 the terminal value of a record is
\* projected[N] * (1+g) / (r-g), taken from the projected and not the discounted
\* series, its present value is that over (1+r)^N, and the NPV of the record is
\* the sum of the discounted values plus that present value; fcff = 100,
\* r = 0.10, g = 0.02, N = 1 gives 1275.
C7_TerminalValueAndNpv ==
    (ValidRates /\ projection_years >= 1 /\ pc \in {"loop", "done", "failed"} /\ i >= 1) =>
        LET g == terminal_growth_rate
            r == discount_rate
            N == projection_years
            TV == Div(Mul(projected_fcffs[N], Add(One, g)), Sub(r, g))
            PV_TV == Div(TV, Pow(Add(One, r), N))
        IN  /\ Len(terminal_values) = i
            /\ Len(net_present_values) = i
            /\ terminal_values[i] = PV_TV
            /\ net_present_values[i] = Add(SumList(discounted_fcffs), PV_TV)
            /\ (historical_fcffs[i] = Num(100) /\ r = Rat(1, 10) /\ g = Rat(1, 50) /\ N = 1)
                   => net_present_values[i] = Num(1275)

C7_Witness ==
    /\ i >= 1
    /\ Len(net_present_values) = i
    /\ historical_fcffs[i] = Num(100)
    /\ discount_rate = Rat(1, 10)
    /\ terminal_growth_rate = Rat(1, 50)
    /\ projection_years = 1
    /\ projected_fcffs = <<Num(102)>>
    /\ terminal_values[i] = Rat(260100, 220)
    /\ net_present_values[i] = Num(1275)

ExpectedTvPv(fcff) ==
    Div(Mul(fcff, Pow(Add(One, terminal_growth_rate), projection_years + 1)),
        Mul(Sub(discount_rate, terminal_growth_rate),
            Pow(Add(One, discount_rate), projection_years)))

ExpectedNpv(fcff) ==
    Add(SumList([j \in 1..projection_years |->
                    Mul(fcff, Pow(Div(Add(One, terminal_growth_rate),
                                      Add(One, discount_rate)), j))]),
        ExpectedTvPv(fcff))

InMillions(x) == Div(x, Num(1000000))

\* C8: the table of a completed run has one row per FCFF record, in the order of
\* the records, and row p holds the fiscal year, the FCFF, the terminal-value PV
\* and the NPV of record p; the parallel lists have equal lengths throughout.
C8_RowsAlignedWithRecords ==
    /\ pc \in {"loop", "done"} =>
        /\ Len(historical_years) = Len(apple_df.index)
        /\ Len(historical_fcffs) = Len(apple_df.index)
        /\ Len(terminal_values) = i
        /\ Len(net_present_values) = i
    /\ pc = "done" =>
        /\ i = Len(apple_df.index)
        /\ Len(output_file.rows) = Len(apple_df.index)
        /\ \A p \in 1..Len(apple_df.index) :
            LET k == apple_df.index[p]
                fcff == apple_df.col["FCFF"][k]
            IN  output_file.rows[p] =
                    <<apple_df.fy[k], InMillions(fcff), InMillions(ExpectedTvPv(fcff)),
                      InMillions(ExpectedNpv(fcff))>>

C8_Witness ==
    /\ pc = "done"
    /\ Len(output_file.rows) = 2
    /\ output_file.rows[1][1] # output_file.rows[2][1]
    /\ ~IsNaN(output_file.rows[1][4])
    /\ ~IsNaN(output_file.rows[2][4])
    /\ output_file.rows[1][4] # output_file.rows[2][4]

\* C9: when the capex column exists and is null or zero in every period, no
\* label is chosen, the resolved series holds 0 at every period of the frame,
\* keyed to that period, and the FCFF of each period is the resolved cfo of the
\* period minus 0.
C9_AllZeroResolvesToKeyedZeros ==
    (Extracted /\ \A k \in Range(apple_df.index) :
                    IsNaN(apple_df.col[CapexLabel][k]) \/ IsZero(apple_df.col[CapexLabel][k]))
    =>  /\ used_labels[2] = "None"
        /\ \A k \in Range(apple_df.index) :
            /\ k \in Range(capex.index) /\ capex.val[k] = Zero
            /\ apple_df.col["FCFF"][k] =
                   IF used_labels[1] = "None" THEN Zero
                   ELSE FillNa(apple_df, CfoLabel).val[k]

\* C10: with projection_years <= 0 and at least one record the run never
\* completes: the first iteration is still to run or has raised at the
\* terminal-value line with an empty projected series, no value is stored and
\* no table is written; with no record the same horizon raises nothing.
C10_NonPositiveHorizon ==
    (Extracted /\ projection_years <= 0) =>
        IF Len(historical_fcffs) >= 1
        THEN /\ pc \in {"loop", "failed"}
             /\ i = 0
             /\ terminal_values = << >>
             /\ net_present_values = << >>
             /\ ~output_file.written
             /\ pc = "loop" => i < Len(historical_fcffs)
             /\ pc = "failed" =>
                 /\ error = [kind |-> "IndexError", line |-> 104]
                 /\ projected_fcffs = << >>
        ELSE /\ pc \in {"loop", "done"}
             /\ error = NoError

C10_Witness ==
    /\ Extracted
    /\ projection_years <= 0
    /\ Len(historical_fcffs) >= 1
    /\ pc = "failed"
    /\ error.kind = "IndexError"
    /\ discount_rate = terminal_growth_rate

====
